---- MODULE Spec2Model ----
(***************************************************************************)
(* Model of the cube-partner-training documentation site:                  *)
(*   - the site configuration module (docusaurus.config.ts),               *)
(*   - the HomepageFeatures component,                                     *)
(*   - the docs tree the configuration and the intro page link into,       *)
(*   - the site generator's build (configuration load, page assembly,      *)
(*     link check under the configured policy).                            *)
(* Strings are kept as in the source; paths and URLs are inspected with    *)
(* Len/SubSeq/\o.                                                          *)
(***************************************************************************)
EXTENDS Integers, Sequences, FiniteSets, TLC

VARIABLES
    year,         \* calendar year of the wall clock (new Date().getFullYear())
    phase,        \* build position: idle, loaded, assembled, success, failed
    config,       \* the configuration record of the current build, or NoConfig
    firstConfig,  \* the record of the first build that loaded the configuration
    loadYear,     \* the year in which config was evaluated
    firstYear,    \* the year in which firstConfig was evaluated
    tree,         \* the docs files the current build has loaded
    mdBroken,     \* unresolved markdown file links reported for the current build
    site,         \* the assembled navbar and footer of the current build, or NoSite
    brokenLinks,  \* internal links of the current build that resolve to no page
    warnings,     \* warnings the current build has emitted
    featureList,  \* the module-level FeatureList array
    rpc,          \* position of the HomepageFeatures call: idle or map
    idx,          \* index the map of the running render will visit next
    row,          \* elements the map of the running render has produced
    calls,        \* indices passed to Feature by the running render, in call order
    output,       \* the value returned by the last completed render, or NoOutput
    firstOutput,  \* the value returned by the first completed render
    renders,      \* number of completed renders
    path          \* the modules a reader has opened, in the order opened

vars == <<year, phase, config, firstConfig, loadYear, firstYear, tree, mdBroken,
          site, brokenLinks, warnings, featureList, rpc, idx, row, calls, output,
          firstOutput, renders, path>>

buildVars == <<phase, config, firstConfig, loadYear, firstYear, tree, mdBroken,
               site, brokenLinks, warnings>>

renderVars == <<featureList, rpc, idx, row, calls, output, firstOutput, renders>>

----------------------------------------------------------------------------
(* Bounds of the model *)

StartYear == 2025

MaxYears == 2

MaxRenders == 3

MaxMdBroken == 2

MaxPath == 8

----------------------------------------------------------------------------
(* String helpers *)

StartsWith(s, p) == Len(s) >= Len(p) /\ SubSeq(s, 1, Len(p)) = p

EndsWith(s, p) == Len(s) >= Len(p) /\ SubSeq(s, Len(s) - Len(p) + 1, Len(s)) = p

DropPrefix(s, p) == IF StartsWith(s, p) THEN SubSeq(s, Len(p) + 1, Len(s)) ELSE s

DropSuffix(s, p) == IF EndsWith(s, p) THEN SubSeq(s, 1, Len(s) - Len(p)) ELSE s

RECURSIVE LastSlash(_, _)
\* Position of the last "/" of s within its first n characters, 0 when none.
LastSlash(s, n) ==
    IF n = 0 THEN 0
    ELSE IF SubSeq(s, n, n) = "/" THEN n
    ELSE LastSlash(s, n - 1)

Dirname(s) == SubSeq(s, 1, LastSlash(s, Len(s)))

DigitChar(d) ==
    CASE d = 0 -> "0" [] d = 1 -> "1" [] d = 2 -> "2" [] d = 3 -> "3"
      [] d = 4 -> "4" [] d = 5 -> "5" [] d = 6 -> "6" [] d = 7 -> "7"
      [] d = 8 -> "8" [] d = 9 -> "9"

RECURSIVE NumberToString(_)
\* Decimal digits of a non-negative integer, as a template literal prints it.
NumberToString(n) ==
    IF n < 10 THEN DigitChar(n)
    ELSE NumberToString(n \div 10) \o DigitChar(n % 10)

----------------------------------------------------------------------------
(* The site configuration module *)

NoConfig == [none |-> "config"]

\* NavbarItems with the scheme of one href left out.
NavbarItems_NoScheme == <<
    [type |-> "docSidebar", sidebarId |-> "tutorialSidebar", position |-> "left",
     label |-> "Training Modules"],
    [href |-> "https://cube.dev", label |-> "Cube.dev", position |-> "right"],
    [href |-> "cubecloud.dev", label |-> "Cube Cloud", position |-> "right"],
    [href |-> "https://github.com/cube-js/cube", label |-> "GitHub",
     position |-> "right"] >>

\* NavbarItems whose last item is given the position of the first.
NavbarItems_GitHubLeft == <<
    [type |-> "docSidebar", sidebarId |-> "tutorialSidebar", position |-> "left",
     label |-> "Training Modules"],
    [href |-> "https://cube.dev", label |-> "Cube.dev", position |-> "right"],
    [href |-> "https://cubecloud.dev", label |-> "Cube Cloud", position |-> "right"],
    [href |-> "https://github.com/cube-js/cube", label |-> "GitHub",
     position |-> "left"] >>

NavbarItems == <<
    [type |-> "docSidebar", sidebarId |-> "tutorialSidebar", position |-> "left",
     label |-> "Training Modules"],
    [href |-> "https://cube.dev", label |-> "Cube.dev", position |-> "right"],
    [href |-> "https://cubecloud.dev", label |-> "Cube Cloud", position |-> "right"],
    [href |-> "https://github.com/cube-js/cube", label |-> "GitHub",
     position |-> "right"] >>

\* FooterLinks with the groups Cube Resources and Support declared in the other
\* order.
FooterLinks_Swapped == <<
    [title |-> "Training",
     items |-> <<
        [label |-> "Getting Started", to |-> "/docs/intro"],
        [label |-> "Module 1: Foundation", to |-> "/docs/module-1-foundation"],
        [label |-> "Module 2: Getting Started",
         to |-> "/docs/module-2-getting-started"] >>],
    [title |-> "Support",
     items |-> <<
        [label |-> "GitHub Issues", href |-> "https://github.com/cube-js/cube/issues"],
        [label |-> "Stack Overflow",
         href |-> "https://stackoverflow.com/questions/tagged/cube.js"],
        [label |-> "Partner Program", href |-> "https://cube.dev/partners"] >>],
    [title |-> "Cube Resources",
     items |-> <<
        [label |-> "Cube.dev", href |-> "https://cube.dev"],
        [label |-> "Cube Cloud", href |-> "https://cubecloud.dev"],
        [label |-> "Documentation", href |-> "https://cube.dev/docs"],
        [label |-> "Community Slack", href |-> "https://cube.dev/slack"] >>] >>

\* FooterLinks whose Training items give full URLs of the deployed site.
FooterLinks_AllExternal == <<
    [title |-> "Training",
     items |-> <<
        [label |-> "Getting Started",
         href |-> "https://cube-partner-training.github.io/cube-partner-training/docs/intro"],
        [label |-> "Module 1: Foundation",
         href |-> "https://cube-partner-training.github.io/cube-partner-training/docs/module-1-foundation"],
        [label |-> "Module 2: Getting Started",
         href |-> "https://cube-partner-training.github.io/cube-partner-training/docs/module-2-getting-started"] >>],
    [title |-> "Cube Resources",
     items |-> <<
        [label |-> "Cube.dev", href |-> "https://cube.dev"],
        [label |-> "Cube Cloud", href |-> "https://cubecloud.dev"],
        [label |-> "Documentation", href |-> "https://cube.dev/docs"],
        [label |-> "Community Slack", href |-> "https://cube.dev/slack"] >>],
    [title |-> "Support",
     items |-> <<
        [label |-> "GitHub Issues", href |-> "https://github.com/cube-js/cube/issues"],
        [label |-> "Stack Overflow",
         href |-> "https://stackoverflow.com/questions/tagged/cube.js"],
        [label |-> "Partner Program", href |-> "https://cube.dev/partners"] >>] >>

\* FooterLinks whose item Getting Started gives a path and a URL at once.
FooterLinks_BothTargets == <<
    [title |-> "Training",
     items |-> <<
        [label |-> "Getting Started", to |-> "/docs/intro",
         href |-> "https://cube-partner-training.github.io/cube-partner-training/docs/intro"],
        [label |-> "Module 1: Foundation", to |-> "/docs/module-1-foundation"],
        [label |-> "Module 2: Getting Started",
         to |-> "/docs/module-2-getting-started"] >>],
    [title |-> "Cube Resources",
     items |-> <<
        [label |-> "Cube.dev", href |-> "https://cube.dev"],
        [label |-> "Cube Cloud", href |-> "https://cubecloud.dev"],
        [label |-> "Documentation", href |-> "https://cube.dev/docs"],
        [label |-> "Community Slack", href |-> "https://cube.dev/slack"] >>],
    [title |-> "Support",
     items |-> <<
        [label |-> "GitHub Issues", href |-> "https://github.com/cube-js/cube/issues"],
        [label |-> "Stack Overflow",
         href |-> "https://stackoverflow.com/questions/tagged/cube.js"],
        [label |-> "Partner Program", href |-> "https://cube.dev/partners"] >>] >>

FooterLinks == <<
    [title |-> "Training",
     items |-> <<
        [label |-> "Getting Started", to |-> "/docs/intro"],
        [label |-> "Module 1: Foundation", to |-> "/docs/module-1-foundation"],
        [label |-> "Module 2: Getting Started",
         to |-> "/docs/module-2-getting-started"] >>],
    [title |-> "Cube Resources",
     items |-> <<
        [label |-> "Cube.dev", href |-> "https://cube.dev"],
        [label |-> "Cube Cloud", href |-> "https://cubecloud.dev"],
        [label |-> "Documentation", href |-> "https://cube.dev/docs"],
        [label |-> "Community Slack", href |-> "https://cube.dev/slack"] >>],
    [title |-> "Support",
     items |-> <<
        [label |-> "GitHub Issues", href |-> "https://github.com/cube-js/cube/issues"],
        [label |-> "Stack Overflow",
         href |-> "https://stackoverflow.com/questions/tagged/cube.js"],
        [label |-> "Partner Program", href |-> "https://cube.dev/partners"] >>] >>

\* The template literal of footer.copyright, evaluated in year y.
Copyright(y) ==
    "Copyright © " \o NumberToString(y) \o " Cube Dev, Inc. Built with Docusaurus."

\* Navbar holding the right-hand items ahead of the left-hand one.
Navbar_Reordered ==
    [title |-> "Cube Partner Training",
     logo |-> [alt |-> "Cube Logo", src |-> "img/logo.svg"],
     items |-> SubSeq(NavbarItems, 2, Len(NavbarItems)) \o <<NavbarItems[1]>>]

Navbar ==
    [title |-> "Cube Partner Training",
     logo |-> [alt |-> "Cube Logo", src |-> "img/logo.svg"],
     items |-> NavbarItems]

\* Footer whose style is computed from the year as the copyright line is.
Footer_StyleByYear(y) ==
    [style |-> IF y % 2 = 0 THEN "dark" ELSE "light",
     links |-> FooterLinks, copyright |-> Copyright(y)]

\* themeConfig.footer of the record evaluated in year y: its links, then the
\* copyright line.
Footer(y) ==
    [style |-> "dark", links |-> FooterLinks, copyright |-> Copyright(y)]

\* The broken-link level set to the level of the markdown links.
OnBrokenLinks_Warn == "warn"

OnBrokenLinks == "throw"

OnBrokenMarkdownLinks == "warn"

\* I18n whose default locale is not in the list of locales.
I18n_DefaultNotListed == [defaultLocale |-> "fr", locales |-> <<"en">>]

\* The i18n field of the configuration record.
I18n == [defaultLocale |-> "en", locales |-> <<"en">>]

\* The value of `config` when the module is evaluated while the clock shows year y.
EvalConfig(y) ==
    [title |-> "Cube Partner Training",
     tagline |-> "Master the semantic layer for analytics success",
     favicon |-> "img/favicon.ico",
     future |-> [v4 |-> TRUE],
     url |-> "https://cube-partner-training.github.io",
     baseUrl |-> "/cube-partner-training/",
     organizationName |-> "cube-partner-training",
     projectName |-> "cube-partner-training",
     onBrokenLinks |-> OnBrokenLinks,
     onBrokenMarkdownLinks |-> OnBrokenMarkdownLinks,
     i18n |-> I18n,
     presets |-> <<
        [name |-> "classic",
         docs |-> [sidebarPath |-> "./sidebars.ts",
                   editUrl |-> "https://github.com/cube-partner-training/cube-partner-training/tree/main/"],
         blog |-> FALSE,
         theme |-> [customCss |-> "./src/css/custom.css"]] >>,
     themeConfig |->
        [image |-> "img/docusaurus-social-card.jpg",
         navbar |-> Navbar,
         footer |-> Footer(y),
         prism |-> [theme |-> "github", darkTheme |-> "dracula"]]]

----------------------------------------------------------------------------
(* The docs tree *)

\* The markdown files of the docs directory with their level-1 headings, in
\* the order they occur in the file. The intro page is the document with
\* sidebar_position 1; the file name of the document with sidebar_position 3 is
\* not known and stands as part_002.
DocsTree == {
    [file |-> "docs/intro.md", h1 |-> <<"Cube Partner Training Program">>],
    [file |-> "docs/part_002.md", h1 |-> <<"Share Your Implementation">>],
    [file |-> "docs/module-1-foundation/index.md", h1 |-> <<"Module 1: Foundation">>],
    [file |-> "docs/module-3-data-modeling/index.md",
     h1 |-> <<"Module 3: Data Modeling", "Module 2: Getting Started",
              "Module 6: APIs & Integration">>],
    [file |-> "docs/module-4-security/index.md",
     h1 |-> <<"Module 4: Security & Access Control">>],
    [file |-> "docs/module-5-performance/index.md",
     h1 |-> <<"Module 5: Performance & Caching", "Module 7: Advanced Concepts">>] }

\* The Learning Path of the intro page: one entry per "###" heading, with the
\* heading's link text and link target and the entry's "Duration" in minutes.
LearningPath == <<
    [text |-> "Module 1: Foundation", href |-> "./module-1-foundation/",
     duration |-> 45],
    [text |-> "Module 2: Getting Started", href |-> "./module-2-getting-started/",
     duration |-> 45],
    [text |-> "Module 3: Data Modeling", href |-> "./module-3-data-modeling/",
     duration |-> 60],
    [text |-> "Module 4: Security & Access Control", href |-> "./module-4-security/",
     duration |-> 30],
    [text |-> "Module 5: Performance & Caching", href |-> "./module-5-performance/",
     duration |-> 30],
    [text |-> "Module 6: APIs & Integration", href |-> "./module-6-apis-integration/",
     duration |-> 60],
    [text |-> "Module 7: Advanced Concepts", href |-> "./module-7-advanced/",
     duration |-> 45] >>

\* The page of the intro document, from which its relative links are resolved.
IntroFile == "docs/intro.md"

ParseDigit(c) ==
    CASE c = "0" -> 0 [] c = "1" -> 1 [] c = "2" -> 2 [] c = "3" -> 3
      [] c = "4" -> 4 [] c = "5" -> 5 [] c = "6" -> 6 [] c = "7" -> 7
      [] c = "8" -> 8 [] c = "9" -> 9 [] OTHER -> -1

RECURSIVE ParseNumber(_, _)
\* The decimal number that s starts with, continuing from the value acc;
\* acc when s starts with no digit.
ParseNumber(s, acc) ==
    IF Len(s) = 0 \/ ParseDigit(SubSeq(s, 1, 1)) < 0 THEN acc
    ELSE ParseNumber(SubSeq(s, 2, Len(s)), 10 * acc + ParseDigit(SubSeq(s, 1, 1)))

\* The number N of a heading "Module N: <name>", 0 for any other text.
ModuleNumber(text) ==
    IF StartsWith(text, "Module ") THEN ParseNumber(DropPrefix(text, "Module "), 0)
    ELSE 0

\* The module documents of the docs directory, one per level-1 heading
\* "Module N: <name>", in the order of file and position in the file: the
\* heading, the file holding it, the "Duration" and "Format" lines of its
\* Module Overview, the bullets of its Prerequisites section and the lines of
\* its Next Steps section.
ModuleDocs == <<
    [title |-> "Module 1: Foundation",
     file |-> "docs/module-1-foundation/index.md",
     duration |-> "45 minutes",
     format |-> "Theory (20 min) → Demo (15 min) → Discussion (10 min)",
     prerequisites |-> <<>>,
     nextSteps |-> <<
        "In Module 2, you'll get hands-on experience setting up your first Cube Cloud deployment and connecting to the TPC-H sample dataset. You'll learn the development workflow and create your first data models." >>],
    [title |-> "Module 3: Data Modeling",
     file |-> "docs/module-3-data-modeling/index.md",
     duration |-> "60 minutes",
     format |-> "Theory (20 min) → Demo (15 min) → Hands-on Exercise (20 min) → Review (5 min)",
     prerequisites |-> <<
        "- Completed Module 2: Getting Started",
        "- Working Cube Cloud deployment with nation and region models",
        "- Basic understanding of SQL joins and relationships" >>,
     nextSteps |-> <<
        "In Module 4, we'll add security and access controls to your data model. You'll learn how to implement row-level security, role-based access, and multi-tenant patterns that are essential for client deployments." >>],
    [title |-> "Module 2: Getting Started",
     file |-> "docs/module-3-data-modeling/index.md",
     duration |-> "45 minutes",
     format |-> "Demo (15 min) → Hands-on Exercise (25 min) → Review (5 min)",
     prerequisites |-> <<
        "- Completed Module 1: Foundation",
        "- Access to Cube Cloud account (free trial available)",
        "- Basic understanding of SQL and data modeling concepts" >>,
     nextSteps |-> <<
        "In Module 3, we'll expand your TPC-H data model to include customers, orders, and line items. You'll learn advanced modeling patterns, complex joins, and how to handle time-series data effectively." >>],
    [title |-> "Module 6: APIs & Integration",
     file |-> "docs/module-3-data-modeling/index.md",
     duration |-> "60 minutes",
     format |-> "Demo (20 min) → Hands-on Exercise (35 min) → Integration Planning (5 min)",
     prerequisites |-> <<
        "- Completed Module 5: Performance & Caching",
        "- Working TPC-H data model with pre-aggregations",
        "- Basic understanding of APIs and SQL" >>,
     nextSteps |-> <<
        "In Module 7, we'll explore advanced concepts including dynamic data modeling, complex analytics patterns, and real-world implementation strategies that will prepare you to handle sophisticated client requirements." >>],
    [title |-> "Module 4: Security & Access Control",
     file |-> "docs/module-4-security/index.md",
     duration |-> "30 minutes",
     format |-> "Theory (10 min) → Demo (10 min) → Hands-on Exercise (10 min)",
     prerequisites |-> <<
        "- Completed Module 3: Data Modeling",
        "- Working TPC-H data model with all cubes",
        "- Understanding of user roles and permissions concepts" >>,
     nextSteps |-> <<
        "In Module 5, we'll focus on performance optimization and caching strategies. You'll learn how to implement pre-aggregations, optimize query performance, and monitor your Cube deployment for production workloads." >>],
    [title |-> "Module 5: Performance & Caching",
     file |-> "docs/module-5-performance/index.md",
     duration |-> "30 minutes",
     format |-> "Theory (10 min) → Demo (10 min) → Hands-on Exercise (10 min)",
     prerequisites |-> <<
        "- Completed Module 4: Security & Access Control",
        "- Working TPC-H data model with security controls",
        "- Understanding of analytical query patterns" >>,
     nextSteps |-> <<
        "In Module 6, we'll explore APIs and integrations. You'll learn how to connect your optimized Cube deployment to various BI tools, build custom applications, and create embedded analytics solutions." >>],
    [title |-> "Module 7: Advanced Concepts",
     file |-> "docs/module-5-performance/index.md",
     duration |-> "45 minutes",
     format |-> "Theory (15 min) → Demo (15 min) → Advanced Exercise (15 min)",
     prerequisites |-> <<
        "- Completed all previous modules",
        "- Working comprehensive TPC-H implementation",
        "- Understanding of advanced SQL and analytics concepts" >>,
     nextSteps |-> <<
        "1. **Practice** with your own client scenarios",
        "2. **Join** the Cube community for ongoing support",
        "3. **Contribute** to the training program with your experiences",
        "4. **Build** your Cube practice and grow your expertise",
        "Welcome to the Cube partner ecosystem!" >>] >>

\* The number of modules the intro page announces ("7 progressive modules").
ModuleCount == 7

\* The module document whose heading carries the number n.
ModuleDoc(n) ==
    ModuleDocs[CHOOSE k \in 1..Len(ModuleDocs) : ModuleNumber(ModuleDocs[k].title) = n]

\* The module numbers N > 0 that a text names as "Module N".
ModuleMentions(text) ==
    { ParseNumber(SubSeq(text, i + Len("Module "), Len(text)), 0) :
        i \in { j \in 1..Len(text) :
                  /\ j + Len("Module ") - 1 <= Len(text)
                  /\ SubSeq(text, j, j + Len("Module ") - 1) = "Module " } } \ {0}

\* NextStepsOf with the Next Steps of module 4 pointing back to module 3.
NextStepsOf_Module4Back(n) ==
    IF n = 4
    THEN <<"In Module 3, we'll revisit the data model before moving on.">>
    ELSE ModuleDoc(n).nextSteps

\* The lines of the Next Steps section of module n.
NextStepsOf(n) == ModuleDoc(n).nextSteps

\* The bullets of the Prerequisites section of module n.
PrerequisitesOf(n) == ModuleDoc(n).prerequisites

\* The modules the Next Steps section of module n names.
Successors(n) ==
    UNION { ModuleMentions(NextStepsOf(n)[k]) : k \in 1..Len(NextStepsOf(n)) }

\* The modules a Prerequisites bullet asks to have completed, read for module n.
CompletedBy(bullet, n) ==
    IF ~StartsWith(bullet, "- Completed ") THEN {}
    ELSE IF DropPrefix(bullet, "- Completed ") = "all previous modules"
         THEN 1..(n - 1)
         ELSE ModuleMentions(DropPrefix(bullet, "- Completed "))

\* The modules the Prerequisites section of module n asks to have completed.
PrerequisiteModules(n) ==
    UNION { CompletedBy(PrerequisitesOf(n)[k], n) : k \in 1..Len(PrerequisitesOf(n)) }

\* Successors and PrerequisiteModules of every module, as tables.
SuccessorTable == [n \in 1..ModuleCount |-> Successors(n)]

PrerequisiteTable == [n \in 1..ModuleCount |-> PrerequisiteModules(n)]

RECURSIVE IndexOf(_, _, _)
\* The first position from i on at which p occurs in s, 0 when there is none.
IndexOf(s, p, i) ==
    IF i + Len(p) - 1 > Len(s) THEN 0
    ELSE IF SubSeq(s, i, i + Len(p) - 1) = p THEN i
    ELSE IndexOf(s, p, i + 1)

\* Whether p occurs in s.
Contains(s, p) == IndexOf(s, p, 1) > 0

RECURSIVE Split(_, _)
\* The pieces of s between the occurrences of the separator sep.
Split(s, sep) ==
    IF IndexOf(s, sep, 1) = 0 THEN <<s>>
    ELSE <<SubSeq(s, 1, IndexOf(s, sep, 1) - 1)>>
         \o Split(SubSeq(s, IndexOf(s, sep, 1) + Len(sep), Len(s)), sep)

\* The text of s before the first occurrence of p (all of s when there is none).
Before(s, p) == IF Contains(s, p) THEN SubSeq(s, 1, IndexOf(s, p, 1) - 1) ELSE s

\* The text of s after the first occurrence of p (empty when there is none).
After(s, p) ==
    IF Contains(s, p) THEN SubSeq(s, IndexOf(s, p, 1) + Len(p), Len(s)) ELSE ""

\* A segment "<name> (<m> min)" of a Format line.
FormatSegment(seg) ==
    [name |-> Before(seg, " ("), minutes |-> ParseNumber(After(seg, "("), 0)]

\* FormatSegments that leaves out the last segment of the line.
FormatSegments_DropLast(format) ==
    [k \in 1..(Len(Split(format, " → ")) - 1) |-> FormatSegment(Split(format, " → ")[k])]

\* The segments of a Format line "<name> (<m> min) → <name> (<m> min) → ...".
FormatSegments(format) ==
    [k \in 1..Len(Split(format, " → ")) |-> FormatSegment(Split(format, " → ")[k])]

\* The segments of the Format line of module n.
FormatOf(n) == FormatSegments(ModuleDoc(n).format)

\* The segments of the Format line of every module, as a table.
FormatTable == [n \in 1..ModuleCount |-> FormatOf(n)]

\* The parts the intro page says each module includes ("Progressive Exercises").
IntroPartLines == <<
    "1. **Theory & Concepts** (15-20 minutes)",
    "2. **Video Demonstration** (10-15 minutes)",
    "3. **Hands-on Exercise** (15-30 minutes)" >>

\* A line "<k>. **<name>** (<min>-<max> minutes)" of the intro page.
IntroPart(line) ==
    [name |-> Before(After(line, "**"), "**"),
     min |-> ParseNumber(After(line, "("), 0),
     max |-> ParseNumber(After(After(line, "("), "-"), 0)]

\* The parts of the intro page with their ranges of minutes.
IntroParts == [k \in 1..Len(IntroPartLines) |-> IntroPart(IntroPartLines[k])]

\* Whether a segment of a Format line is the part `part` of the intro page:
\* the part's name holds the segment's name ("Theory" in "Theory & Concepts",
\* "Demo" in "Video Demonstration", "Hands-on Exercise").
IsPart(segment, part) == Contains(part.name, segment.name)

RECURSIVE SumMinutes(_)
\* The sum of the minutes of a sequence of segments or sections.
SumMinutes(segs) ==
    IF segs = <<>> THEN 0 ELSE Head(segs).minutes + SumMinutes(Tail(segs))

\* The minutes of the "Duration" line of module n's overview.
DurationOf(n) == ParseNumber(ModuleDoc(n).duration, 0)

\* The "Duration" in minutes of the intro page's Learning Path entry of module n.
LearningPathDuration(n) ==
    LearningPath[CHOOSE k \in 1..Len(LearningPath) :
                    ModuleNumber(LearningPath[k].text) = n].duration

\* The three durations of every module: in the intro page, in the module's
\* overview, and as the total of the module's Format line.
DurationTable ==
    [n \in 1..ModuleCount |->
        [intro |-> LearningPathDuration(n),
         overview |-> DurationOf(n),
         format |-> SumMinutes(FormatTable[n])]]

\* The "###" headings under "## Video Demo Outline" of every module document,
\* in the order of ModuleDocs.
VideoDemoOutline == <<
    [title |-> "Module 1: Foundation",
     sections |-> <<
        "Introduction & Problem Statement (5 minutes)",
        "What is Cube? (5 minutes)",
        "Cube Cloud vs OSS Comparison (3 minutes)",
        "Core Components Deep Dive (2 minutes)" >>],
    [title |-> "Module 3: Data Modeling",
     sections |-> <<
        "Data Modeling Approach (7 minutes)",
        "Advanced Join Patterns (5 minutes)",
        "Time-Based Modeling (3 minutes)" >>],
    [title |-> "Module 2: Getting Started",
     sections |-> <<
        "Cloud Setup Walkthrough (8 minutes)",
        "First Data Connection (4 minutes)",
        "Development Workflow Introduction (3 minutes)" >>],
    [title |-> "Module 6: APIs & Integration",
     sections |-> <<
        "API Overview (5 minutes)",
        "BI Tool Connections (8 minutes)",
        "Custom Application Development (7 minutes)" >>],
    [title |-> "Module 4: Security & Access Control",
     sections |-> <<
        "Security Overview (3 minutes)",
        "Access Control Configuration (4 minutes)",
        "Row-Level Security Implementation (3 minutes)" >>],
    [title |-> "Module 5: Performance & Caching",
     sections |-> <<
        "Performance Fundamentals (3 minutes)",
        "Pre-aggregation Strategy (4 minutes)",
        "Monitoring and Optimization (3 minutes)" >>],
    [title |-> "Module 7: Advanced Concepts",
     sections |-> <<
        "Advanced Analytics Patterns (5 minutes)",
        "Dynamic Data Modeling (5 minutes)",
        "Production Troubleshooting (5 minutes)" >>] >>

\* A heading "<name> (<m> minutes)" of a Video Demo Outline.
OutlineSection(heading) ==
    [name |-> Before(heading, " ("), minutes |-> ParseNumber(After(heading, "("), 0)]

\* The sections of the Video Demo Outline of module n.
OutlineOf(n) ==
    LET headings == VideoDemoOutline[CHOOSE k \in 1..Len(VideoDemoOutline) :
                        ModuleNumber(VideoDemoOutline[k].title) = n].sections
    IN  [k \in 1..Len(headings) |-> OutlineSection(headings[k])]

\* DemoMinutes that reads the first segment of the Format line.
DemoMinutes_FirstSegment(n) == FormatTable[n][1].minutes

\* The minutes of the segment "Demo" of module n's Format line.
DemoMinutes(n) ==
    FormatTable[n][CHOOSE j \in 1..Len(FormatTable[n]) :
                      FormatTable[n][j].name = "Demo"].minutes

\* The demo of every module: the minutes of its outline's sections and the
\* minutes its Format line gives the demo.
DemoTable ==
    [n \in 1..ModuleCount |->
        [sections |-> [k \in 1..Len(OutlineOf(n)) |-> OutlineOf(n)[k].minutes],
         outline |-> SumMinutes(OutlineOf(n)),
         demo |-> DemoMinutes(n)]]

----------------------------------------------------------------------------
(* The site generator: routes and link resolution *)

\* A path without a trailing slash ("/" itself excepted).
NormalizePath(p) == IF Len(p) > 1 THEN DropSuffix(p, "/") ELSE p

\* The route under which the docs plugin serves a file of the docs directory:
\* docs/a/index.md is served at /docs/a, docs/a.md at /docs/a.
DocRoute(file) == "/" \o DropSuffix(DropSuffix(file, ".md"), "/index")

\* The routes of the pages of a docs tree.
Routes(t) == { DocRoute(d.file) : d \in t }

\* The path a link target written on the page at route `from` points to.
ResolveLink(href, from) ==
    IF StartsWith(href, "/") THEN NormalizePath(href)
    ELSE NormalizePath(Dirname(from) \o DropPrefix(href, "./"))

\* Whether the link target `href` written on page `from` leads to a page of tree t.
Resolves(href, from, t) == ResolveLink(href, from) \in Routes(t)

\* A well-formed external URL: an http(s) scheme followed by a host.
IsExternalUrl(s) ==
    \/ StartsWith(s, "https://") /\ Len(s) > Len("https://")
    \/ StartsWith(s, "http://") /\ Len(s) > Len("http://")

----------------------------------------------------------------------------
(* The HomepageFeatures component *)

NoOutput == [none |-> "output"]

FeatureList == <<
    [title |-> "Hands-On Learning",
     Svg |-> "@site/static/img/undraw_docusaurus_mountain.svg",
     description |-> "Learn by building with real TPC-H data and DuckDB. Each module includes practical exercises that build on previous knowledge, creating a complete analytics solution from foundation to advanced patterns."],
    [title |-> "Partner-Focused Content",
     Svg |-> "@site/static/img/undraw_docusaurus_tree.svg",
     description |-> "Designed specifically for systems integrators and consultants. Learn to position Cube Cloud, implement client solutions, and build a successful analytics practice with enterprise-grade patterns."],
    [title |-> "Production Ready",
     Svg |-> "@site/static/img/undraw_docusaurus_react.svg",
     description |-> "Master security, performance optimization, and troubleshooting. Connect to BI tools, build custom applications, and implement sophisticated analytics patterns your clients will love."] >>

\* Feature with the text part ahead of the icon part.
Feature_TextFirst(item) ==
    [tag |-> "div", className |-> "col col--4",
     children |-> <<
        [tag |-> "div", className |-> "text--center padding-horiz--md",
         children |-> <<
            [tag |-> "Heading", as |-> "h3", children |-> <<item.title>>],
            [tag |-> "p", children |-> <<item.description>>] >>],
        [tag |-> "div", className |-> "text--center",
         children |-> <<
            [tag |-> "Svg", src |-> item.Svg, className |-> "featureSvg",
             role |-> "img"] >>] >>]

\* Feature whose column is 6 grid columns wide.
Feature_HalfWidth(item) ==
    [tag |-> "div", className |-> "col col--6",
     children |-> <<
        [tag |-> "div", className |-> "text--center",
         children |-> <<
            [tag |-> "Svg", src |-> item.Svg, className |-> "featureSvg",
             role |-> "img"] >>],
        [tag |-> "div", className |-> "text--center padding-horiz--md",
         children |-> <<
            [tag |-> "Heading", as |-> "h3", children |-> <<item.title>>],
            [tag |-> "p", children |-> <<item.description>>] >>] >>]

\* The element Feature returns for one entry.
Feature(item) ==
    [tag |-> "div", className |-> "col col--4",
     children |-> <<
        [tag |-> "div", className |-> "text--center",
         children |-> <<
            [tag |-> "Svg", src |-> item.Svg, className |-> "featureSvg",
             role |-> "img"] >>],
        [tag |-> "div", className |-> "text--center padding-horiz--md",
         children |-> <<
            [tag |-> "Heading", as |-> "h3", children |-> <<item.title>>],
            [tag |-> "p", children |-> <<item.description>>] >>] >>]

\* MapCallback keyed by a number that grows with the renders done.
MapCallback_RenderKey(props, i) == [key |-> i + renders, element |-> Feature(props)]

\* The element the map callback returns for entry `props` at index i (from 0):
\* <Feature key={idx} {...props} />.
MapCallback(props, i) == [key |-> i, element |-> Feature(props)]

\* The section HomepageFeatures returns around the mapped elements.
Section(elements) ==
    [tag |-> "section", className |-> "features",
     children |-> <<
        [tag |-> "div", className |-> "container",
         children |-> <<
            [tag |-> "div", className |-> "row", children |-> elements] >>] >>]

\* The keyed feature blocks of a returned section, in document order.
Blocks(out) == out.children[1].children[1].children

\* The title shown by a feature block.
BlockTitle(b) == b.element.children[2].children[1].children[1]

\* The description shown by a feature block.
BlockDescription(b) == b.element.children[2].children[2].children[1]

----------------------------------------------------------------------------
(* The site generator: build inputs, page assembly, link policy *)

NoSite == [none |-> "site"]

\* The positions <<group, item>> of the entries of a footer.
FooterPositions(f) ==
    UNION { { <<i, j>> : j \in 1..Len(f.links[i].items) } : i \in 1..Len(f.links) }

\* The entry of footer f at position p.
FooterItem(f, p) == f.links[p[1]].items[p[2]]

\* The relative links the intro page holds: those of the Learning Path and the
\* two "Module 1" links of its closing sections.
IntroLinks ==
    { LearningPath[i].href : i \in 1..Len(LearningPath) } \cup {"./module-1-foundation/"}

\* The internal links of the site: the footer's `to` targets, which every page
\* shows (taken from the root page), and the relative links of the intro page.
InternalLinks(cfg, t) ==
    { [href |-> FooterItem(cfg.themeConfig.footer, p).to, from |-> "/"] :
        p \in { q \in FooterPositions(cfg.themeConfig.footer) :
                    "to" \in DOMAIN FooterItem(cfg.themeConfig.footer, q) } }
    \cup
    IF \E d \in t : d.file = IntroFile
    THEN { [href |-> h, from |-> DocRoute(IntroFile)] : h \in IntroLinks }
    ELSE {}

\* The links of a set that lead to no page of tree t.
Broken(links, t) == { l \in links : ~Resolves(l.href, l.from, t) }

\* The index page a route would be served from.
PageFor(route) == [file |-> DropPrefix(route, "/") \o "/index.md", h1 |-> <<>>]

\* The pages the site links to that the docs tree does not hold.
AbsentPages ==
    { PageFor(ResolveLink(l.href, l.from)) :
        l \in Broken(InternalLinks(EvalConfig(StartYear), DocsTree), DocsTree) }

\* The docs directories a build is run on: the docs tree as it is, and the
\* tree with any of the pages the site links to added.
Trees == { DocsTree \cup X : X \in SUBSET AbsentPages }

\* What the generator does with a finding under a reporting level.
Report(level) ==
    CASE level = "throw" -> "error"
      [] level = "warn" -> "warning"
      [] level = "log" -> "info"
      [] level = "ignore" -> "none"

\* The navbar as laid out: the items with position "left" in declaration order,
\* then the items with position "right" in declaration order.
NavbarLayout(items) ==
    SelectSeq(items, LAMBDA it : it.position = "left")
    \o SelectSeq(items, LAMBDA it : it.position = "right")

\* The link a footer entry is rendered as.
FooterLink(item) ==
    [label |-> item.label,
     target |-> IF "to" \in DOMAIN item THEN item.to ELSE item.href]

\* The footer as rendered: one column per group, one link per item.
FooterColumns(f) ==
    [i \in 1..Len(f.links) |->
        [title |-> f.links[i].title,
         links |-> [j \in 1..Len(f.links[i].items) |-> FooterLink(f.links[i].items[j])]]]

----------------------------------------------------------------------------
(* Initial state: nothing built, nothing rendered *)

Init ==
    /\ year = StartYear
    /\ phase = "idle"
    /\ config = NoConfig
    /\ firstConfig = NoConfig
    /\ loadYear = 0
    /\ firstYear = 0
    /\ tree = {}
    /\ mdBroken = 0
    /\ site = NoSite
    /\ brokenLinks = {}
    /\ warnings = {}
    /\ featureList = FeatureList
    /\ rpc = "idle"
    /\ idx = 0
    /\ row = <<>>
    /\ calls = <<>>
    /\ output = NoOutput
    /\ firstOutput = NoOutput
    /\ renders = 0
    /\ path = <<>>

----------------------------------------------------------------------------
(* The clock *)

\* A new calendar year begins.
Tick ==
    /\ year < StartYear + MaxYears
    /\ year' = year + 1
    /\ UNCHANGED <<path, buildVars, renderVars>>

----------------------------------------------------------------------------
(* A build of the site *)

\* The generator evaluates the configuration module.
LoadConfig ==
    /\ phase = "idle"
    /\ config' = EvalConfig(year)
    /\ loadYear' = year
    /\ firstConfig' = IF firstConfig = NoConfig THEN EvalConfig(year) ELSE firstConfig
    /\ firstYear' = IF firstConfig = NoConfig THEN year ELSE firstYear
    /\ tree' = {}
    /\ mdBroken' = 0
    /\ site' = NoSite
    /\ brokenLinks' = {}
    /\ warnings' = {}
    /\ phase' = "loaded"
    /\ UNCHANGED <<path, year, renderVars>>

\* The generator reads the docs directory; its markdown pass finds md
\* unresolved markdown file links and reports them at the configured level.
LoadContent ==
    /\ phase = "loaded"
    /\ \E t \in Trees, md \in 0..MaxMdBroken :
        /\ tree' = t
        /\ mdBroken' = md
        /\ IF md > 0 /\ Report(config.onBrokenMarkdownLinks) = "error"
           THEN /\ phase' = "failed"
                /\ warnings' = warnings
           ELSE /\ phase' = "content"
                /\ warnings' =
                     IF md > 0 /\ Report(config.onBrokenMarkdownLinks) = "warning"
                     THEN warnings \cup {"broken markdown links"}
                     ELSE warnings
    /\ UNCHANGED <<path, year, config, firstConfig, loadYear, firstYear, site,
                   brokenLinks, renderVars>>

\* The generator assembles the pages: the theme lays out the navbar and the
\* footer from the configuration.
Assemble ==
    /\ phase = "content"
    /\ site' = [navbar |-> NavbarLayout(config.themeConfig.navbar.items),
                footer |-> FooterColumns(config.themeConfig.footer),
                copyright |-> config.themeConfig.footer.copyright]
    /\ phase' = "assembled"
    /\ UNCHANGED <<path, year, config, firstConfig, loadYear, firstYear, tree, mdBroken,
                   brokenLinks, warnings, renderVars>>

\* The generator's link check: the internal links that lead to no page are
\* reported at the configured level; an error ends the build with no site.
CheckLinks ==
    /\ phase = "assembled"
    /\ LET broken == Broken(InternalLinks(config, tree), tree)
       IN  /\ brokenLinks' = broken
           /\ IF broken # {} /\ Report(config.onBrokenLinks) = "error"
              THEN /\ phase' = "failed"
                   /\ site' = NoSite
                   /\ warnings' = warnings
              ELSE /\ phase' = "success"
                   /\ site' = site
                   /\ warnings' =
                        IF broken # {} /\ Report(config.onBrokenLinks) = "warning"
                        THEN warnings \cup {"broken links"}
                        ELSE warnings
    /\ UNCHANGED <<path, year, config, firstConfig, loadYear, firstYear, tree, mdBroken,
                   renderVars>>

\* The build has ended; the next one may start.
NewBuild ==
    /\ phase \in {"success", "failed"}
    /\ phase' = "idle"
    /\ UNCHANGED <<path, year, config, firstConfig, loadYear, firstYear, tree, mdBroken,
                   site, brokenLinks, warnings, renderVars>>

----------------------------------------------------------------------------
(* A render of HomepageFeatures *)

\* RenderStart that keeps the elements of the render before.
RenderStart_KeepRow ==
    /\ rpc = "idle"
    /\ renders < MaxRenders
    /\ rpc' = "map"
    /\ idx' = 0
    /\ calls' = <<>>
    /\ UNCHANGED <<path, year, buildVars, featureList, row, output, firstOutput, renders>>

\* HomepageFeatures is called: FeatureList.map begins at index 0.
RenderStart ==
    /\ rpc = "idle"
    /\ renders < MaxRenders
    /\ rpc' = "map"
    /\ idx' = 0
    /\ row' = <<>>
    /\ calls' = <<>>
    /\ UNCHANGED <<path, year, buildVars, featureList, output, firstOutput, renders>>

\* RenderStep that puts each element ahead of the ones before it.
RenderStep_Prepend ==
    /\ rpc = "map"
    /\ idx < Len(featureList)
    /\ row' = <<MapCallback(featureList[idx + 1], idx)>> \o row
    /\ calls' = Append(calls, idx)
    /\ idx' = idx + 1
    /\ UNCHANGED <<path, year, buildVars, featureList, rpc, output, firstOutput, renders>>

\* RenderStep that takes each entry off the front of FeatureList (shift).
RenderStep_Shift ==
    /\ rpc = "map"
    /\ idx < Len(featureList)
    /\ row' = Append(row, MapCallback(Head(featureList), idx))
    /\ calls' = Append(calls, idx)
    /\ featureList' = Tail(featureList)
    /\ idx' = idx
    /\ UNCHANGED <<path, year, buildVars, rpc, output, firstOutput, renders>>

\* RenderStep that passes over every second entry.
RenderStep_SkipNext ==
    /\ rpc = "map"
    /\ idx < Len(featureList)
    /\ row' = Append(row, MapCallback(featureList[idx + 1], idx))
    /\ calls' = Append(calls, idx)
    /\ idx' = idx + 2
    /\ UNCHANGED <<path, year, buildVars, featureList, rpc, output, firstOutput, renders>>

\* The map visits the entry at index idx and keeps the callback's element.
RenderStep ==
    /\ rpc = "map"
    /\ idx < Len(featureList)
    /\ row' = Append(row, MapCallback(featureList[idx + 1], idx))
    /\ calls' = Append(calls, idx)
    /\ idx' = idx + 1
    /\ UNCHANGED <<path, year, buildVars, featureList, rpc, output, firstOutput, renders>>

\* RenderDone that also reports the render as a warning of the build.
RenderDone_Logs ==
    /\ rpc = "map"
    /\ idx >= Len(featureList)
    /\ output' = Section(row)
    /\ firstOutput' = IF renders = 0 THEN Section(row) ELSE firstOutput
    /\ renders' = renders + 1
    /\ rpc' = "idle"
    /\ warnings' = warnings \cup {"rendered"}
    /\ UNCHANGED <<path, year, phase, config, firstConfig, loadYear, firstYear, tree,
                   mdBroken, site, brokenLinks, featureList, idx, row, calls>>

\* RenderDone of a component that counts its renders and shows the count.
RenderDone_Counter ==
    /\ rpc = "map"
    /\ idx >= Len(featureList)
    /\ output' = [Section(row) EXCEPT
                    !.className = "features " \o NumberToString(renders)]
    /\ firstOutput' = IF renders = 0 THEN Section(row) ELSE firstOutput
    /\ renders' = renders + 1
    /\ rpc' = "idle"
    /\ UNCHANGED <<path, year, buildVars, featureList, idx, row, calls>>

\* The map has visited every entry: HomepageFeatures returns the section.
RenderDone ==
    /\ rpc = "map"
    /\ idx >= Len(featureList)
    /\ output' = Section(row)
    /\ firstOutput' = IF renders = 0 THEN Section(row) ELSE firstOutput
    /\ renders' = renders + 1
    /\ rpc' = "idle"
    /\ UNCHANGED <<path, year, buildVars, featureList, idx, row, calls>>

----------------------------------------------------------------------------
(* A reader of the curriculum *)

\* The reader begins with Module 1, as the intro page directs.
BeginModule1 ==
    /\ path = <<>>
    /\ path' = <<1>>
    /\ UNCHANGED <<year, buildVars, renderVars>>

\* The reader goes on to a module the Next Steps section of the module last
\* opened names.
FollowNextSteps ==
    /\ path # <<>>
    /\ Len(path) < MaxPath
    /\ \E m \in SuccessorTable[path[Len(path)]] :
          /\ m \in 1..ModuleCount
          /\ path' = Append(path, m)
    /\ UNCHANGED <<year, buildVars, renderVars>>

----------------------------------------------------------------------------

Next ==
    \/ Tick
    \/ LoadConfig
    \/ LoadContent
    \/ Assemble
    \/ CheckLinks
    \/ NewBuild
    \/ RenderStart
    \/ RenderStep
    \/ RenderDone
    \/ BeginModule1
    \/ FollowNextSteps

Spec == Init /\ [][Next]_vars

\* The specification with the scheduling of a render: a call of
\* HomepageFeatures that has begun runs on, step by step, until it returns.
FairSpec == Spec /\ WF_vars(RenderStep) /\ WF_vars(RenderDone)

----------------------------------------------------------------------------
(* Properties *)

\* A build has run its link check (or ended before it).
BuildEnded == phase \in {"success", "failed"}

\* The docs directory has been read by the current build.
ContentLoaded == phase \in {"content", "assembled", "success"}

\* The items of the loaded configuration's navbar.
NavItems == config.themeConfig.navbar.items

\* A navigation or footer entry's own path or URL target is sound in tree t.
HasPathOrUrlTarget(item, t) ==
    \/ "to" \in DOMAIN item /\ Resolves(item.to, "/", t)
    \/ "href" \in DOMAIN item /\ IsExternalUrl(item.href)

\* A docSidebar entry: it names a sidebar and holds no path or URL of its own.
IsSidebarEntry(item) ==
    /\ "type" \in DOMAIN item /\ item.type = "docSidebar"
    /\ "sidebarId" \in DOMAIN item /\ item.sidebarId # ""
    /\ "to" \notin DOMAIN item
    /\ "href" \notin DOMAIN item

\* The fields of a configuration record other than footer.copyright.
WithoutCopyright(c) ==
    [c EXCEPT !.themeConfig.footer.copyright = ""]

\* C1: every completed render of HomepageFeatures returns exactly three blocks,
\* block i built from FeatureList entry i ('Hands-On Learning', 'Partner-Focused
\* Content', 'Production Ready' in this order), each showing the title and the
\* description of its entry verbatim.
C1_ThreeBlocksInDeclarationOrder ==
    renders > 0 =>
        /\ Len(Blocks(output)) = 3
        /\ [i \in 1..3 |-> BlockTitle(Blocks(output)[i])]
             = <<"Hands-On Learning", "Partner-Focused Content", "Production Ready">>
        /\ \A i \in 1..3 :
            /\ BlockTitle(Blocks(output)[i]) = FeatureList[i].title
            /\ BlockDescription(Blocks(output)[i]) = FeatureList[i].description

C1_Witness ==
    /\ renders > 0
    /\ rpc = "idle"
    /\ Len(Blocks(output)) = 3
    /\ BlockTitle(Blocks(output)[3]) = "Production Ready"

\* C2 as stated: every navbar entry of the loaded configuration has a non-empty
\* label and a target that is a resolvable internal path or a well-formed
\* external URL.
C2_EveryNavEntryHasPathOrUrl ==
    ContentLoaded =>
        \A i \in 1..Len(NavItems) :
            /\ NavItems[i].label # ""
            /\ HasPathOrUrlTarget(NavItems[i], tree)

\* C2 amended: every navbar entry has a non-empty label; the entries 2 to 4
\* have a well-formed external URL as target; entry 1, of type docSidebar, has
\* no path or URL of its own and names a sidebar by a non-empty sidebarId.
C2_NavEntriesLabelledUrlOrSidebar ==
    ContentLoaded =>
        /\ Len(NavItems) = 4
        /\ \A i \in 1..Len(NavItems) : NavItems[i].label # ""
        /\ IsSidebarEntry(NavItems[1])
        /\ \A i \in 2..Len(NavItems) :
            /\ HasPathOrUrlTarget(NavItems[i], tree)
            /\ ~IsSidebarEntry(NavItems[i])

C2_Witness ==
    /\ ContentLoaded
    /\ IsSidebarEntry(NavItems[1])
    /\ ~HasPathOrUrlTarget(NavItems[1], tree)
    /\ IsExternalUrl(NavItems[4].href)

\* C3: the assembled footer shows the groups in the order Training, Cube
\* Resources, Support, and in every group the items in their declaration order,
\* none moved, dropped or duplicated.
C3_FooterOrderPreserved ==
    site # NoSite =>
        /\ [i \in 1..Len(site.footer) |-> site.footer[i].title]
             = <<"Training", "Cube Resources", "Support">>
        /\ [i \in 1..Len(site.footer) |->
              [j \in 1..Len(site.footer[i].links) |-> site.footer[i].links[j].label]]
             = << <<"Getting Started", "Module 1: Foundation",
                    "Module 2: Getting Started">>,
                  <<"Cube.dev", "Cube Cloud", "Documentation", "Community Slack">>,
                  <<"GitHub Issues", "Stack Overflow", "Partner Program">> >>
        /\ Len(site.footer) = Len(config.themeConfig.footer.links)
        /\ \A i \in 1..Len(site.footer) :
            LET items == config.themeConfig.footer.links[i].items
            IN  /\ site.footer[i].title = config.themeConfig.footer.links[i].title
                /\ Len(site.footer[i].links) = Len(items)
                /\ \A j \in 1..Len(items) :
                    /\ site.footer[i].links[j].label = items[j].label
                    /\ site.footer[i].links[j].target
                         = IF "to" \in DOMAIN items[j] THEN items[j].to
                           ELSE items[j].href

C3_Witness ==
    /\ site # NoSite
    /\ phase = "success"
    /\ Len(site.footer) = 3
    /\ site.footer[3].links[3].label = "Partner Program"

\* C4: after a build over the docs tree, every footer entry has a non-empty
\* label and a resolvable target: each `to` path leads to a page of the docs
\* tree and each href is an external URL.
C4_FooterTargetsResolve ==
    (BuildEnded /\ tree = DocsTree) =>
        \A p \in FooterPositions(config.themeConfig.footer) :
            LET item == FooterItem(config.themeConfig.footer, p)
            IN  /\ item.label # ""
                /\ HasPathOrUrlTarget(item, tree)
                /\ "to" \in DOMAIN item =>
                      [href |-> item.to, from |-> "/"] \notin brokenLinks

\* C5: every completed render returns what the first completed render returned.
C5_RenderIdempotent ==
    renders > 0 => output = firstOutput

C5_Witness ==
    /\ renders >= 2
    /\ rpc = "idle"
    /\ output = firstOutput
    /\ Len(Blocks(output)) = 3

\* C6: the configured policy is onBrokenLinks = 'throw' and
\* onBrokenMarkdownLinks = 'warn': a build with at least one internal link that
\* does not resolve ends in failure with no site produced, and a build whose
\* only defect is an unresolved markdown link ends in success with a warning.
C6_BrokenLinkPolicy ==
    /\ config # NoConfig =>
          /\ config.onBrokenLinks = "throw"
          /\ config.onBrokenMarkdownLinks = "warn"
    /\ BuildEnded =>
          /\ brokenLinks # {} => phase = "failed" /\ site = NoSite
          /\ (brokenLinks = {} /\ mdBroken > 0) =>
                /\ phase = "success"
                /\ site # NoSite
                /\ "broken markdown links" \in warnings

C6_Witness ==
    /\ phase = "success"
    /\ brokenLinks = {}
    /\ mdBroken > 0
    /\ Broken(InternalLinks(config, tree), tree) = {}
    /\ warnings = {"broken markdown links"}

\* C7 as stated: the configuration record of every build equals, in every
\* field, the record of the first build.
C7_SameRecordInEveryBuild ==
    config # NoConfig => config = firstConfig

\* C7 amended: the records of two builds agree in every field other than
\* themeConfig.footer.copyright; the copyright line holds the calendar year of
\* the evaluation, so the whole records agree exactly when the two builds run
\* in the same calendar year.
C7_SameRecordButCopyrightYear ==
    config # NoConfig =>
        /\ WithoutCopyright(config) = WithoutCopyright(firstConfig)
        /\ (config = firstConfig) <=> (loadYear = firstYear)
        /\ config.themeConfig.footer.copyright
             = "Copyright © " \o NumberToString(loadYear)
                 \o " Cube Dev, Inc. Built with Docusaurus."

C7_Witness ==
    /\ config # NoConfig
    /\ loadYear # firstYear
    /\ config.themeConfig.footer.copyright # firstConfig.themeConfig.footer.copyright
    /\ WithoutCopyright(config) = WithoutCopyright(firstConfig)

\* C8: FeatureList stays as defined through any number of renders: the same
\* three entries, in the same order, with the same title, icon and description.
C8_FeatureListFixed ==
    /\ featureList = FeatureList
    /\ Len(featureList) = 3
    /\ [i \in 1..Len(featureList) |-> featureList[i].title]
         = <<"Hands-On Learning", "Partner-Focused Content", "Production Ready">>

C8_Witness ==
    /\ renders >= 2
    /\ rpc = "map"
    /\ idx = Len(featureList)
    /\ featureList = FeatureList

\* C9: from its evaluation on, through the build and every render, the
\* configuration keeps the navbar items and the footer link groups it was
\* declared with: same labels, targets, positions and order, in every build.
C9_NavAndFooterNeverMutated ==
    config # NoConfig =>
        /\ config.themeConfig.navbar.items = NavbarItems
        /\ config.themeConfig.footer.links = FooterLinks
        /\ config.themeConfig.navbar.items = firstConfig.themeConfig.navbar.items
        /\ config.themeConfig.footer.links = firstConfig.themeConfig.footer.links
        /\ [i \in 1..Len(NavItems) |-> <<NavItems[i].label, NavItems[i].position>>]
             = << <<"Training Modules", "left">>, <<"Cube.dev", "right">>,
                  <<"Cube Cloud", "right">>, <<"GitHub", "right">> >>

C9_Witness ==
    /\ phase = "success"
    /\ site # NoSite
    /\ renders > 0
    /\ loadYear # firstYear
    /\ config.themeConfig.navbar.items = NavbarItems

\* The documents of tree t served at the route a link of the intro page leads to.
LinkedDocs(href, t) ==
    { d \in t : DocRoute(d.file) = ResolveLink(href, DocRoute(IntroFile)) }

\* C10: the Learning Path of the intro page lists exactly seven modules,
\* numbered 1 to 7 in ascending order, each with its own relative link target
\* ./module-N-<name>/, and after a build over the docs tree each of the seven
\* targets leads to the document of module N.
C10_LearningPathCoversModules ==
    (BuildEnded /\ tree = DocsTree) =>
        /\ Len(LearningPath) = 7
        /\ \A i \in 1..Len(LearningPath) :
            /\ ModuleNumber(LearningPath[i].text) = i
            /\ StartsWith(LearningPath[i].href,
                          "./module-" \o NumberToString(i) \o "-")
            /\ EndsWith(LearningPath[i].href, "/")
            /\ \A j \in 1..Len(LearningPath) :
                  LearningPath[i].href = LearningPath[j].href => i = j
            /\ [href |-> LearningPath[i].href, from |-> DocRoute(IntroFile)]
                  \notin brokenLinks
            /\ \E d \in LinkedDocs(LearningPath[i].href, tree) :
                  \E k \in 1..Len(d.h1) : ModuleNumber(d.h1[k]) = i

\* C11: the curriculum is one linear progression of the 7 modules: module N
\* (2 <= N <= 6) asks for the completion of module N-1, named by its heading,
\* and module 7 for the completion of all previous modules; the Next Steps of
\* module N (1 <= N <= 6) name module N+1 and no other module, those of module
\* 7 name none; a reader following Next Steps from module 1 opens 1, 2, ..., 7
\* in this order and then has no module to go on to.
C11_LinearProgression ==
    /\ Len(ModuleDocs) = ModuleCount
    /\ \A n \in 2..(ModuleCount - 1) :
        /\ PrerequisiteTable[n] = {n - 1}
        /\ \E k \in 1..Len(PrerequisitesOf(n)) :
              PrerequisitesOf(n)[k] = "- Completed " \o ModuleDoc(n - 1).title
    /\ PrerequisiteTable[ModuleCount] = 1..(ModuleCount - 1)
    /\ \A n \in 1..(ModuleCount - 1) : SuccessorTable[n] = {n + 1}
    /\ SuccessorTable[ModuleCount] = {}
    /\ Len(path) <= ModuleCount
    /\ \A i \in 1..Len(path) : path[i] = i
    /\ Len(path) = ModuleCount => ~ENABLED FollowNextSteps

C11_Witness ==
    /\ path = <<1, 2, 3, 4, 5, 6, 7>>
    /\ ~ENABLED FollowNextSteps

\* C12: every module a reader opens includes, by its own Format line, the
\* three parts of the intro page with minutes inside the stated ranges: Theory
\* & Concepts 15 to 20, Video Demonstration 10 to 15, Hands-on Exercise 15 to 30.
C12_ModulesHoldThreePartsInRange ==
    \A i \in 1..Len(path) :
        \A k \in 1..Len(IntroParts) :
            \E j \in 1..Len(FormatTable[path[i]]) :
                /\ IsPart(FormatTable[path[i]][j], IntroParts[k])
                /\ FormatTable[path[i]][j].minutes >= IntroParts[k].min
                /\ FormatTable[path[i]][j].minutes <= IntroParts[k].max

\* The keys of the blocks of a returned section, in document order.
Keys(out) == [i \in 1..Len(Blocks(out)) |-> Blocks(out)[i].key]

\* C13: every feature block is keyed by the position of its entry: the keys of
\* a render are exactly 0, 1, 2, pairwise distinct, and an entry has the same
\* key in every re-render as in the first render.
C13_KeyedByPosition ==
    /\ \A k \in 1..Len(row) : row[k].key = k - 1
    /\ renders > 0 =>
          /\ Keys(output) = <<0, 1, 2>>
          /\ \A i, j \in 1..Len(Blocks(output)) :
                Blocks(output)[i].key = Blocks(output)[j].key => i = j
          /\ \A i \in 1..Len(Blocks(output)), j \in 1..Len(Blocks(firstOutput)) :
                Blocks(output)[i].element = Blocks(firstOutput)[j].element
                    => Blocks(output)[i].key = Blocks(firstOutput)[j].key

C13_Witness ==
    /\ renders >= 2
    /\ rpc = "idle"
    /\ Keys(output) = <<0, 1, 2>>
    /\ Keys(firstOutput) = <<0, 1, 2>>

\* A block as Feature returns it: a column holding an icon part and a text part.
IsBlock(el) ==
    /\ el.tag = "div"
    /\ Len(el.children) = 2
    /\ \A k \in 1..Len(el.children) : Len(el.children[k].children) > 0

\* A step of a call of HomepageFeatures.
RenderMoved ==
    <<rpc, idx, row, calls, output, firstOutput, renders>>'
        # <<rpc, idx, row, calls, output, firstOutput, renders>>

\* C14: rendering has no error outcome and no side effect: every call of
\* Feature yields a block, every return of HomepageFeatures yields the section
\* with one block per entry, and a step of a render changes nothing but the
\* call's own locals and its return value.
C14_NoErrorNoSideEffect ==
    [][RenderMoved =>
          /\ UNCHANGED <<year, buildVars, featureList, path>>
          /\ \A k \in 1..Len(row') : IsBlock(row'[k].element)
          /\ renders' > renders =>
                /\ output'.tag = "section"
                /\ Len(Blocks(output')) = Len(featureList)
                /\ \A k \in 1..Len(Blocks(output')) : IsBlock(Blocks(output')[k].element)
      ]_vars

C14_Witness ==
    /\ renders > 0
    /\ rpc = "idle"
    /\ output.tag = "section"
    /\ \A k \in 1..Len(Blocks(output)) : IsBlock(Blocks(output)[k].element)
    /\ featureList = FeatureList
    /\ phase = "success"
    /\ warnings = {}

\* C15: the component has the one state 'rendered' and no transition out of
\* it: it keeps nothing from one call to the next (every call begins with
\* fresh locals), and once rendered, no step, a re-render included, changes
\* what it shows.
C15_OneRenderedState ==
    [][/\ output # NoOutput => output' = output
       /\ (rpc = "idle" /\ rpc' = "map") => (idx' = 0 /\ row' = <<>> /\ calls' = <<>>)
      ]_vars

C15_Witness ==
    /\ renders >= 2
    /\ rpc = "map"
    /\ idx > 0
    /\ output # NoOutput
    /\ output = firstOutput

\* C16: a render of HomepageFeatures terminates after visiting each entry once:
\* it calls Feature for the indices 0, 1, 2 in this order, 3 = |FeatureList|
\* calls in all, and then returns.
C16_RenderVisitsEachEntryOnceAndReturns ==
    /\ [](/\ Len(calls) <= Len(FeatureList)
          /\ \A k \in 1..Len(calls) : calls[k] = k - 1
          /\ (rpc = "idle" /\ renders > 0) => calls = <<0, 1, 2>>)
    /\ (rpc = "map") ~> (rpc = "idle" /\ calls = <<0, 1, 2>>)

C16_Witness ==
    /\ rpc = "idle"
    /\ renders > 0
    /\ calls = <<0, 1, 2>>
    /\ Len(Blocks(output)) = 3

\* The parts a block shows, in document order: the children of its wrappers.
RECURSIVE PartsFrom(_, _)
PartsFrom(el, k) ==
    IF k > Len(el.children) THEN <<>>
    ELSE el.children[k].children \o PartsFrom(el, k + 1)

Parts(el) == PartsFrom(el, 1)

\* The parts of block b are the icon, the heading and the description of entry e.
ShowsEntry(b, e) ==
    /\ Len(Parts(b)) = 3
    /\ Parts(b)[1].tag = "Svg" /\ Parts(b)[1].src = e.Svg
    /\ Parts(b)[2].tag = "Heading" /\ Parts(b)[2].children = <<e.title>>
    /\ Parts(b)[3].tag = "p" /\ Parts(b)[3].children = <<e.description>>

\* Block b shows a field of entry e.
ShowsAnyOf(b, e) ==
    \E k \in 1..Len(Parts(b)) :
        \/ Parts(b)[k].tag = "Svg" /\ Parts(b)[k].src = e.Svg
        \/ Parts(b)[k].tag # "Svg"
            /\ Parts(b)[k].children \in {<<e.title>>, <<e.description>>}

\* C17: every feature block holds exactly one icon, one heading and one
\* description, in this order, the heading showing the title; all three are
\* those of the block's own entry and nothing in it is of another entry.
C17_BlockIsIconHeadingDescription ==
    /\ \A k \in 1..Len(row) :
          /\ ShowsEntry(row[k].element, featureList[k])
          /\ \A j \in 1..Len(featureList) :
                j # k => ~ShowsAnyOf(row[k].element, featureList[j])
    /\ renders > 0 =>
          \A k \in 1..Len(Blocks(output)) :
              /\ ShowsEntry(Blocks(output)[k].element, FeatureList[k])
              /\ \A j \in 1..Len(FeatureList) :
                    j # k => ~ShowsAnyOf(Blocks(output)[k].element, FeatureList[j])

C17_Witness ==
    /\ renders > 0
    /\ Len(Blocks(output)) = 3
    /\ [k \in 1..3 |-> Parts(Blocks(output)[3].element)[k].tag]
          = <<"Svg", "Heading", "p">>
    /\ Parts(Blocks(output)[3].element)[2].children = <<"Production Ready">>

\* C18: the navbar as laid out by position shows the entries in their
\* declaration order, Training Modules, Cube.dev, Cube Cloud, GitHub: no item
\* with position "right" is declared before an item with position "left".
C18_DisplayOrderIsDeclarationOrder ==
    site # NoSite =>
        /\ site.navbar = NavItems
        /\ [i \in 1..Len(site.navbar) |-> site.navbar[i].label]
              = <<"Training Modules", "Cube.dev", "Cube Cloud", "GitHub">>
        /\ \A i, j \in 1..Len(NavItems) :
              i < j => ~(NavItems[i].position = "right" /\ NavItems[j].position = "left")

C18_Witness ==
    /\ phase = "success"
    /\ site # NoSite
    /\ Len(site.navbar) = 4
    /\ site.navbar[1].position = "left"
    /\ site.navbar[4].position = "right"

\* The identifiers an entry carries that are looked up in another entity: the
\* sidebar a sidebarId names, the documentation page a `to` names.
References(item) ==
    (IF "sidebarId" \in DOMAIN item
        THEN {[kind |-> "sidebar", id |-> item.sidebarId]} ELSE {})
    \cup (IF "to" \in DOMAIN item
        THEN {[kind |-> "doc", id |-> item.to]} ELSE {})

\* The groups of the loaded configuration's footer.
FooterGroups == config.themeConfig.footer.links

\* C19: no navigation entry, footer entry or feature entry carries an
\* identifier that is looked up in another entity.
C19_NoEntryReferencesAnother ==
    ContentLoaded =>
        /\ \A i \in 1..Len(NavItems) : References(NavItems[i]) = {}
        /\ \A g \in 1..Len(FooterGroups) : \A k \in 1..Len(FooterGroups[g].items) :
              References(FooterGroups[g].items[k]) = {}
        /\ \A k \in 1..Len(featureList) : References(featureList[k]) = {}

\* C19 amended: the entries that reference another entity are the navbar's
\* first item, which names the sidebar tutorialSidebar of the sidebars file the
\* docs preset points at, and the three items of the footer group Training,
\* each naming a documentation page by its path; the navbar and footer entries
\* with an href and the feature entries reference no other entity.
C19_ReferencesAreSidebarAndDocs ==
    ContentLoaded =>
        /\ References(NavItems[1]) = {[kind |-> "sidebar", id |-> "tutorialSidebar"]}
        /\ config.presets[1].docs.sidebarPath = "./sidebars.ts"
        /\ \A i \in 2..Len(NavItems) : References(NavItems[i]) = {}
        /\ [k \in 1..Len(FooterGroups[1].items) |-> References(FooterGroups[1].items[k])]
              = << {[kind |-> "doc", id |-> "/docs/intro"]},
                   {[kind |-> "doc", id |-> "/docs/module-1-foundation"]},
                   {[kind |-> "doc", id |-> "/docs/module-2-getting-started"]} >>
        /\ \A g \in 2..Len(FooterGroups) : \A k \in 1..Len(FooterGroups[g].items) :
              References(FooterGroups[g].items[k]) = {}
        /\ \A k \in 1..Len(featureList) : References(featureList[k]) = {}

C19_Witness ==
    /\ ContentLoaded
    /\ References(NavItems[1]) # {}
    /\ References(FooterGroups[1].items[3]) # {}
    /\ References(FooterGroups[3].items[3]) = {}

\* A footer item declares exactly one of `to` and `href`.
OneFooterTarget(item) == ("to" \in DOMAIN item) # ("href" \in DOMAIN item)

\* A navbar item declares exactly one of `href` and a docSidebar sidebarId.
OneNavbarTarget(item) ==
    ("href" \in DOMAIN item)
        # ("sidebarId" \in DOMAIN item /\ "type" \in DOMAIN item
             /\ item.type = "docSidebar")

\* The paths and URLs of an entry are well-formed.
TargetsWellFormed(item) ==
    /\ "to" \in DOMAIN item => StartsWith(item.to, "/")
    /\ "href" \in DOMAIN item => StartsWith(item.href, "https://")

\* C20: every link entry declares exactly one kind of target: a footer item
\* one of `to` and `href`, a navbar item one of `href` and a docSidebar
\* sidebarId; every `to` starts with "/", every `href` with "https://"; the
\* navbar items with an href are on the right, the docSidebar item on the left.
C20_ExactlyOneKindOfTarget ==
    config # NoConfig =>
        /\ \A g \in 1..Len(FooterGroups) : \A k \in 1..Len(FooterGroups[g].items) :
              /\ OneFooterTarget(FooterGroups[g].items[k])
              /\ TargetsWellFormed(FooterGroups[g].items[k])
        /\ \A i \in 1..Len(NavItems) :
              /\ OneNavbarTarget(NavItems[i])
              /\ TargetsWellFormed(NavItems[i])
              /\ "href" \in DOMAIN NavItems[i] => NavItems[i].position = "right"
              /\ "sidebarId" \in DOMAIN NavItems[i] => NavItems[i].position = "left"

C20_Witness ==
    /\ config # NoConfig
    /\ "to" \in DOMAIN FooterGroups[1].items[1]
    /\ "href" \in DOMAIN FooterGroups[2].items[1]
    /\ "sidebarId" \in DOMAIN NavItems[1]
    /\ "href" \in DOMAIN NavItems[2]
    /\ NavItems[2].position = "right"

\* C21: for every module N in 1..7 the duration of N in the intro page's
\* Learning Path equals the Duration of N's own overview, and equals the sum
\* of the minutes of the segments of N's Format line.
C21_DurationsConsistent ==
    /\ Len(LearningPath) = ModuleCount
    /\ \A n \in 1..ModuleCount :
          /\ ModuleNumber(LearningPath[n].text) = n
          /\ DurationTable[n].overview > 0
          /\ DurationTable[n].intro = DurationTable[n].overview
          /\ DurationTable[n].overview = DurationTable[n].format
    /\ \A i \in 1..Len(path) :
          DurationTable[path[i]].intro = SumMinutes(FormatTable[path[i]])

C21_Witness ==
    /\ Len(path) = ModuleCount
    /\ [n \in 1..ModuleCount |-> DurationTable[path[n]].format]
          = <<45, 45, 60, 30, 30, 60, 45>>
    /\ [k \in 1..3 |-> FormatTable[1][k].minutes] = <<20, 15, 10>>
    /\ DurationTable[1].intro = 45

\* C22: for every module the minutes of the sections of its Video Demo
\* Outline sum to the minutes its Format line gives the segment Demo.
C22_DemoOutlineSumsToDemo ==
    /\ Len(VideoDemoOutline) = ModuleCount
    /\ \A n \in 1..ModuleCount :
          /\ \E j \in 1..Len(FormatTable[n]) : FormatTable[n][j].name = "Demo"
          /\ Len(DemoTable[n].sections) > 0
          /\ DemoTable[n].outline = DemoTable[n].demo
    /\ \A i \in 1..Len(path) :
          DemoTable[path[i]].outline = DemoTable[path[i]].demo

C22_Witness ==
    /\ Len(path) >= 4
    /\ DemoTable[path[1]].sections = <<5, 5, 3, 2>>
    /\ DemoTable[path[1]].demo = 15
    /\ DemoTable[path[4]].sections = <<3, 4, 3>>
    /\ DemoTable[path[4]].demo = 10

\* C23: the i18n settings are self-consistent: the default locale is one of
\* the locales, and no locale is listed twice.
C23_I18nSelfConsistent ==
    config # NoConfig =>
        /\ Len(config.i18n.locales) > 0
        /\ \E k \in 1..Len(config.i18n.locales) :
              config.i18n.locales[k] = config.i18n.defaultLocale
        /\ \A j, k \in 1..Len(config.i18n.locales) :
              config.i18n.locales[j] = config.i18n.locales[k] => j = k

C23_Witness ==
    /\ config # NoConfig
    /\ phase = "success"
    /\ config.i18n.defaultLocale = "en"
    /\ config.i18n.locales = <<"en">>

\* The number of grid columns a class "col col--<w>" gives its element.
ColumnWidth(className) == ParseNumber(After(className, "col--"), 0)

RECURSIVE SumWidths(_)
\* The sum of the widths of a sequence of blocks.
SumWidths(blocks) ==
    IF blocks = <<>> THEN 0
    ELSE ColumnWidth(Head(blocks).element.className) + SumWidths(Tail(blocks))

\* C24: the feature blocks are three columns of one row: every block has the
\* class "col col--4", a width of 4 grid columns, all blocks are children of
\* the one element of class "row", and their widths sum to exactly 12.
C24_ThreeColumnsInOneRow ==
    /\ \A k \in 1..Len(row) :
          /\ row[k].element.className = "col col--4"
          /\ ColumnWidth(row[k].element.className) = 4
    /\ renders > 0 =>
          /\ Len(output.children) = 1
          /\ Len(output.children[1].children) = 1
          /\ output.children[1].children[1].className = "row"
          /\ \A k \in 1..Len(Blocks(output)) :
                /\ Blocks(output)[k].element.className = "col col--4"
                /\ ColumnWidth(Blocks(output)[k].element.className) = 4
          /\ SumWidths(Blocks(output)) = 12

C24_Witness ==
    /\ renders > 0
    /\ rpc = "idle"
    /\ Len(Blocks(output)) = 3
    /\ SumWidths(Blocks(output)) = 12
    /\ Blocks(output)[3].element.className = "col col--4"

====
